---- MODULE Spec2Model ----
(***************************************************************************)
(* A model of src/solver.py: the constraint-propagation and backtracking   *)
(* solver for an N x N Latin-square puzzle with junction rules on the      *)
(* diagonal pairs of 2 x 2 blocks, parity rules and given values.          *)
(*                                                                         *)
(* The source is Python 2 (line 236 is a print statement), so "/" on two   *)
(* integers is floor division; it is modelled by \div.                     *)
(*                                                                         *)
(* Iteration orders.  A tuple of candidates is always an ascending         *)
(* sequence (line 140 builds it ascending, every later step filters it or  *)
(* rebuilds it from a set of small integers, which CPython iterates in     *)
(* ascending order).  The iteration order of a dict keyed by cells is a    *)
(* property of the interpreter's hash table, not of the program: the loop  *)
(* over rule_constraints (line 141) and the tie-break of min() over the    *)
(* keys of possibles (line 169) take the keys in any order, and the rule   *)
(* table and the givens are sequences in the order items() yields them,    *)
(* Solver(puzzle) being called with every such order.  The set             *)
(* self.peers[index] (line 207) is walked in row-major order.              *)
(*                                                                         *)
(* Exceptions.  A call of assign_value or eliminate_value yields the dict  *)
(* as the call left it and whether it returned or raised Contradiction.    *)
(* The exceptions solve() lets through (KeyError, the ValueError of min(), *)
(* Contradiction from the givens loop) are outcomes of the run.  A         *)
(* quotient rule with target 0 makes line 107 divide by zero and is not    *)
(* among the rules of the model.                                           *)
(***************************************************************************)
EXTENDS Integers, Sequences, FiniteSets, TLC

\* Bounds of the model.
MaxSize == 3
MaxTarget == 6
MaxRules == 1
MaxGivens == 2
MaxClues == 2
MaxMaximum == 4

VARIABLES
    puzzle,            \* Puzzle(size, rules, givens); rules and givens in items() order
    rule_constraints,  \* Solver.rule_constraints: cell -> sequence of (rule, partner)
    pc,                \* position in Solver.__init__ / solve / search
    heap,              \* the dict objects named possibles / next_possibles, by depth
    cur,               \* the dict handed to the running call of search
    stack,             \* the frames of search: (possibles, min_idx, values still to try)
    todo,              \* keys of rule_constraints the loop of line 141 has not visited
    gi,                \* index of the next given of the loop of line 152
    outcome,           \* how solve() ended
    grid,              \* the mapping solve() returned
    elims,             \* executions of line 201 in the last assign_value cascade
    inv_in,            \* arguments of a call of rule_inverse
    inv_out            \* its result

vars == <<puzzle, rule_constraints, pc, heap, cur, stack, todo, gi, outcome, grid,
          elims, inv_in, inv_out>>

None == "None"

\* ------------------------------------------------------------------ data

Rule(op, value) == [op |-> op, value |-> value]

BinaryOps == {"+", "-", "*", "/"}
ParityOps == {"e", "o"}

Indices(n) == 0 .. (n - 1)
Cells(n) == Indices(n) \X Indices(n)

RECURSIVE SetToSeq(_)
\* A set of small integers as the tuple CPython builds from it: ascending.
SetToSeq(S) ==
    IF S = {} THEN <<>>
    ELSE LET m == CHOOSE x \in S : \A y \in S : x <= y
         IN  <<m>> \o SetToSeq(S \ {m})

Range(s) == {s[i] : i \in 1 .. Len(s)}

CellLess(c, d) == c[1] < d[1] \/ (c[1] = d[1] /\ c[2] < d[2])

RECURSIVE CellSeq(_)
\* A set of cells in row-major order.
CellSeq(S) ==
    IF S = {} THEN <<>>
    ELSE LET m == CHOOSE c \in S : \A d \in S : c = d \/ CellLess(c, d)
         IN  <<m>> \o CellSeq(S \ {m})

\* create_peersets: units_map[c], the unit with c's second coordinate and then
\* the unit with c's first coordinate, each a list of cells.
units(n, c) ==
    << [i \in 1 .. n |-> <<i - 1, c[2]>>], [i \in 1 .. n |-> <<c[1], i - 1>>] >>

\* create_peersets: peers[c].
peers(n, c) == (Range(units(n, c)[1]) \cup Range(units(n, c)[2])) \ {c}

AppendAt(f, k, e) ==
    IF k \in DOMAIN f THEN [f EXCEPT ![k] = Append(@, e)] ELSE f @@ (k :> <<e>>)

RECURSIVE create_rulesets(_)
\* create_rulesets: the four cells of every declared block, each with its
\* diagonal partner; no range check on the anchor.
create_rulesets(rs) ==
    IF rs = <<>> THEN <<>>
    ELSE LET pcs  == create_rulesets(SubSeq(rs, 1, Len(rs) - 1))
             last == rs[Len(rs)]
             x    == last.anchor[1]
             y    == last.anchor[2]
             r    == last.rule
             a1   == AppendAt(pcs, <<x, y>>, [rule |-> r, partner |-> <<x + 1, y + 1>>])
             a2   == AppendAt(a1, <<x + 1, y>>, [rule |-> r, partner |-> <<x, y + 1>>])
             a3   == AppendAt(a2, <<x, y + 1>>, [rule |-> r, partner |-> <<x + 1, y>>])
         IN  AppendAt(a3, <<x + 1, y + 1>>, [rule |-> r, partner |-> <<x, y>>])

\* rule_inverse with the range check of line 110 written "0 < v < maximum".
rule_inverse_strict_maximum(rule, value, maximum) ==
    LET target == rule.value
        values == CASE rule.op = "+" -> {target - value}
                    [] rule.op = "-" -> {target + value, value - target}
                    [] rule.op = "*" -> {target \div value}
                    [] rule.op = "/" -> {target * value, value \div target}
    IN  {v \in values : 0 < v /\ v < maximum}

\* rule_inverse: lines 100-110, "/" being Python 2's floor division.
rule_inverse(rule, value, maximum) ==
    LET target == rule.value
        values == CASE rule.op = "+" -> {target - value}
                    [] rule.op = "-" -> {target + value, value - target}
                    [] rule.op = "*" -> {target \div value}
                    [] rule.op = "/" -> {target * value, value \div target}
    IN  {v \in values : 0 < v /\ v <= maximum}

\* rule_complement: the union of rule_inverse over a tuple of values.
rule_complement(rule, values, maximum) ==
    UNION {rule_inverse(rule, values[i], maximum) : i \in 1 .. Len(values)}

\* ------------------------------------------------------------ propagator

\* A call that returned (ok) or raised Contradiction (~ok), the dict as the call
\* left it, and the number of times line 201 ran.
Return(p, n) == [p |-> p, ok |-> TRUE, n |-> n]
Raise(p, n) == [p |-> p, ok |-> FALSE, n |-> n]

Without(s, value) == LET keep(v) == v # value IN SelectSeq(s, keep)

Has(s, value) == \E i \in 1 .. Len(s) : s[i] = value

RECURSIVE eliminate_value(_, _, _)
RECURSIVE eliminate_each(_, _, _)
RECURSIVE eliminate_peers(_, _, _)
RECURSIVE scan_units(_, _, _)
RECURSIVE narrow_partners(_, _, _)

\* "for r in removed: self.eliminate_value(possibles, index, r)" (lines 187-188)
\* and "for v2 in original - allowed: ..." (lines 228-229).
eliminate_each(p, index, vs) ==
    IF vs = <<>> THEN Return(p, 0)
    ELSE LET r == eliminate_value(p, index, Head(vs))
         IN  IF ~r.ok THEN r
             ELSE LET r2 == eliminate_each(r.p, index, Tail(vs))
                  IN  [r2 EXCEPT !.n = @ + r.n]

\* assign_value that eliminates only the first of the other candidates.
assign_value_first_only(p, index, value) ==
    LET removed == Without(p[index], value)
    IN  eliminate_each(p, index, IF removed = <<>> THEN <<>> ELSE <<removed[1]>>)

\* assign_value: lines 186-189.
assign_value(p, index, value) == eliminate_each(p, index, Without(p[index], value))

\* "for c in self.peers[index]: self.eliminate_value(possibles, c, v2)".
eliminate_peers(p, cs, v2) ==
    IF cs = <<>> THEN Return(p, 0)
    ELSE LET r == eliminate_value(p, Head(cs), v2)
         IN  IF ~r.ok THEN r
             ELSE LET r2 == eliminate_peers(r.p, Tail(cs), v2)
                  IN  [r2 EXCEPT !.n = @ + r.n]

\* The loop of lines 211-216 over the units of the cell.
scan_units(p, us, value) ==
    IF us = <<>> THEN Return(p, 0)
    ELSE LET unit   == Head(us)
             inUnit(c) == Has(p[c], value)
             places == SelectSeq(unit, inUnit)
         IN  IF places = <<>> THEN Raise(p, 0)
             ELSE LET r == IF Len(places) = 1
                           THEN assign_value(p, places[1], value)
                           ELSE Return(p, 0)
                  IN  IF ~r.ok THEN r
                      ELSE LET r2 == scan_units(r.p, Tail(us), value)
                           IN  [r2 EXCEPT !.n = @ + r.n]

\* The loop of lines 220-229 over the (rule, partner) entries of the cell.
narrow_partners(p, index, rs) ==
    IF rs = <<>> THEN Return(p, 0)
    ELSE LET rule == Head(rs).rule
             idx2 == Head(rs).partner
         IN  IF rule.op \in ParityOps THEN narrow_partners(p, index, Tail(rs))
             ELSE LET original == Range(p[idx2])
                      allowed  == rule_complement(rule, p[index], puzzle.size)
                                      \cap original
                  IN  IF allowed = {} THEN Raise(p, 0)
                      ELSE LET r == eliminate_each(p, idx2, SetToSeq(original \ allowed))
                           IN  IF ~r.ok THEN r
                               ELSE LET r2 == narrow_partners(r.p, index, Tail(rs))
                                    IN  [r2 EXCEPT !.n = @ + r.n]

\* eliminate_value that counts the elimination and leaves the tuple as it was.
eliminate_value_no_store(p, index, value) ==
    IF ~Has(p[index], value) THEN Return(p, 0) ELSE Return(p, 1)

\* eliminate_value: lines 197-230.
eliminate_value(p, index, value) ==
    IF ~Has(p[index], value) THEN Return(p, 0)
    ELSE LET p1 == [p EXCEPT ![index] = Without(@, value)]
         IN  IF Len(p1[index]) = 0 THEN Raise(p1, 1)
             ELSE LET r1 == IF Len(p1[index]) = 1
                            THEN eliminate_peers(p1, CellSeq(peers(puzzle.size, index)),
                                                 p1[index][1])
                            ELSE Return(p1, 0)
                  IN  IF ~r1.ok THEN [r1 EXCEPT !.n = @ + 1]
                      ELSE LET r2 == scan_units(r1.p, units(puzzle.size, index), value)
                           IN  IF ~r2.ok THEN [r2 EXCEPT !.n = @ + r1.n + 1]
                               ELSE LET r3 == IF index \in DOMAIN rule_constraints
                                              THEN narrow_partners(r2.p, index,
                                                                   rule_constraints[index])
                                              ELSE Return(r2.p, 0)
                                    IN  [r3 EXCEPT !.n = @ + r2.n + r1.n + 1]

\* --------------------------------------------------------------- puzzles

Rules ==
    ({Rule(op, t) : op \in BinaryOps, t \in 0 .. MaxTarget} \ {Rule("/", 0)})
        \cup {Rule(op, 0) : op \in ParityOps}

\* The sequences of at most k (key, value) pairs of S with pairwise distinct
\* keys: the items() of a dict, in any order.
RECURSIVE Items(_, _)
Items(S, k) ==
    IF k = 0 THEN {<<>>}
    ELSE LET shorter == Items(S, k - 1)
         IN  shorter \cup
             {Append(se[1], se[2]) : se \in
                 {se \in shorter \X S : /\ Len(se[1]) = k - 1
                                        /\ \A i \in 1 .. Len(se[1]) :
                                               se[1][i][1] # se[2][1]}}

\* puzzle.rules.items(): anchors are drawn from the whole grid, the last row
\* and column being anchors whose block leaves the grid.
RuleTables(n) ==
    {[i \in 1 .. Len(s) |-> [anchor |-> s[i][1], rule |-> s[i][2]]] :
        s \in Items(Cells(n) \X Rules, MaxRules)}

\* puzzle.givens.items().
GivenTables(n) ==
    {[i \in 1 .. Len(s) |-> [cell |-> s[i][1], value |-> s[i][2]]] :
        s \in Items(Cells(n) \X (1 .. n), MaxGivens)}

Puzzles ==
    UNION {
        {pz \in [size : {n}, rules : RuleTables(n), givens : GivenTables(n)] :
            Len(pz.rules) + Len(pz.givens) <= MaxClues}
        : n \in 2 .. MaxSize}

WellFormed ==
    \A i \in 1 .. Len(puzzle.rules) :
        /\ puzzle.rules[i].anchor[1] <= puzzle.size - 2
        /\ puzzle.rules[i].anchor[2] <= puzzle.size - 2

\* ------------------------------------------------------------------ solve

\* Before Solver(puzzle) is called there is no puzzle.
NoPuzzle == [size |-> 0, rules |-> <<>>, givens |-> <<>>]

Init ==
    /\ puzzle = NoPuzzle
    /\ rule_constraints = <<>>
    /\ pc = "new"
    /\ heap = <<>>
    /\ cur = 0
    /\ stack = <<>>
    /\ todo = {}
    /\ gi = 0
    /\ outcome = None
    /\ grid = <<>>
    /\ elims = 0
    /\ inv_in = None
    /\ inv_out = {}

noInv == UNCHANGED <<inv_in, inv_out>>

\* Solver(puzzle), lines 131-136, for any puzzle of the bounded family.
SolverInit ==
    /\ pc = "new"
    /\ \E pz \in Puzzles :
        /\ puzzle' = pz
        /\ rule_constraints' = create_rulesets(pz.rules)
    /\ pc' = "solve"
    /\ UNCHANGED <<heap, cur, stack, todo, gi, outcome, grid, elims>>
    /\ noInv

\* solve, line 140: every cell starts with the candidates 1..size.
SolveStart ==
    /\ pc = "solve"
    /\ heap' = << [c \in Cells(puzzle.size) |-> [i \in 1 .. puzzle.size |-> i]] >>
    /\ cur' = 1
    /\ todo' = DOMAIN rule_constraints
    /\ pc' = "seed"
    /\ UNCHANGED <<puzzle, rule_constraints, stack, gi, outcome, grid, elims>>
    /\ noInv

IsOdd(v) == v % 2 = 1

RECURSIVE seed_cell(_, _, _)
\* The inner loop of lines 142-150 for one key idx: the dict it leaves and
\* whether a lookup of possibles raised KeyError.
seed_cell(p, idx, rs) ==
    IF rs = <<>> THEN [p |-> p, err |-> FALSE]
    ELSE LET rule    == Head(rs).rule
             partner == Head(rs).partner
             even(v) == ~IsOdd(v)
         IN  IF rule.op \in ParityOps
             THEN IF idx \notin DOMAIN p THEN [p |-> p, err |-> TRUE]
                  ELSE seed_cell([p EXCEPT ![idx] = IF rule.op = "e"
                                                    THEN SelectSeq(@, even)
                                                    ELSE SelectSeq(@, IsOdd)],
                                 idx, Tail(rs))
             ELSE IF partner \notin DOMAIN p \/ idx \notin DOMAIN p
                  THEN [p |-> p, err |-> TRUE]
                  ELSE LET allowed  == rule_complement(rule, p[partner], puzzle.size)
                           original == Range(p[idx])
                       IN  seed_cell([p EXCEPT ![idx] = SetToSeq(original \cap allowed)],
                                     idx, Tail(rs))

\* One iteration of the loop of line 141 that completes.
SeedCell ==
    /\ pc = "seed"
    /\ \E idx \in todo :
        LET r == seed_cell(heap[1], idx, rule_constraints[idx])
        IN  /\ ~r.err
            /\ heap' = <<r.p>>
            /\ todo' = todo \ {idx}
    /\ UNCHANGED <<puzzle, rule_constraints, pc, cur, stack, gi, outcome, grid, elims>>
    /\ noInv

\* One iteration of the loop of line 141 that looks up a cell outside the grid.
SeedKeyError ==
    /\ pc = "seed"
    /\ \E idx \in todo :
        LET r == seed_cell(heap[1], idx, rule_constraints[idx])
        IN  /\ r.err
            /\ heap' = <<r.p>>
            /\ todo' = todo \ {idx}
    /\ pc' = "done"
    /\ outcome' = "KeyError"
    /\ UNCHANGED <<puzzle, rule_constraints, cur, stack, gi, grid, elims>>
    /\ noInv

\* The loop of line 141 is over.
SeedDone ==
    /\ pc = "seed"
    /\ todo = {}
    /\ pc' = "givens"
    /\ gi' = 1
    /\ UNCHANGED <<puzzle, rule_constraints, heap, cur, stack, todo, outcome, grid, elims>>
    /\ noInv

\* Lines 152-153, one given whose assign_value returns.
ApplyGiven ==
    /\ pc = "givens"
    /\ gi <= Len(puzzle.givens)
    /\ LET g == puzzle.givens[gi]
           r == assign_value(heap[1], g.cell, g.value)
       IN  /\ r.ok
           /\ heap' = <<r.p>>
           /\ elims' = r.n
    /\ gi' = gi + 1
    /\ UNCHANGED <<puzzle, rule_constraints, pc, cur, stack, todo, outcome, grid>>
    /\ noInv

\* Lines 152-153, one given whose assign_value raises Contradiction: the call is
\* outside the try of line 156.
ApplyGivenContradiction ==
    /\ pc = "givens"
    /\ gi <= Len(puzzle.givens)
    /\ LET g == puzzle.givens[gi]
           r == assign_value(heap[1], g.cell, g.value)
       IN  /\ ~r.ok
           /\ heap' = <<r.p>>
           /\ elims' = r.n
    /\ pc' = "done"
    /\ outcome' = "Contradiction"
    /\ UNCHANGED <<puzzle, rule_constraints, cur, stack, todo, gi, grid>>
    /\ noInv

\* Line 157: the top-level call of search.
GivensDone ==
    /\ pc = "givens"
    /\ gi > Len(puzzle.givens)
    /\ pc' = "search"
    /\ UNCHANGED <<puzzle, rule_constraints, heap, cur, stack, todo, gi, outcome, grid, elims>>
    /\ noInv

\* ----------------------------------------------------------------- search

Total(p) ==
    LET RECURSIVE sum(_)
        sum(S) == IF S = {} THEN 0
                  ELSE LET c == CHOOSE c \in S : TRUE IN Len(p[c]) + sum(S \ {c})
    IN  sum(DOMAIN p)

\* Line 164.
AllResolved(p) == \A c \in DOMAIN p : Len(p[c]) = 1

\* Lines 167-168.
Remaining(p) == {c \in DOMAIN p : Len(p[c]) > 1}

\* Line 169: the keys min() may return, the first of the fewest candidates in
\* whatever order the dict yields its keys.
MinCells(p) == {c \in Remaining(p) : \A d \in Remaining(p) : Len(p[c]) <= Len(p[d])}

\* next_possibles = possibles: the same dict object under a second name.
NewDict_alias(h, ref) == [heap |-> SubSeq(h, 1, ref), ref |-> ref]

\* Line 171, next_possibles = dict(possibles): a new dict object with the same
\* items, one level above the dict of the frame that makes it.
NewDict(h, ref) == [heap |-> SubSeq(h, 1, ref) \o <<h[ref]>>, ref |-> ref + 1]

\* Lines 164-165: every cell is resolved, the grid is returned (through every
\* frame, line 174).
SearchSolved ==
    /\ pc = "search"
    /\ AllResolved(heap[cur])
    /\ grid' = [c \in DOMAIN heap[cur] |-> heap[cur][c][1]]
    /\ outcome' = "grid"
    /\ pc' = "done"
    /\ UNCHANGED <<puzzle, rule_constraints, heap, cur, stack, todo, gi, elims>>
    /\ noInv

\* Line 169 with remaining empty: min() raises ValueError, which no except
\* clause of search or solve catches.
SearchNoRemaining ==
    /\ pc = "search"
    /\ ~AllResolved(heap[cur])
    /\ Remaining(heap[cur]) = {}
    /\ outcome' = "ValueError: min() arg is an empty sequence"
    /\ pc' = "done"
    /\ UNCHANGED <<puzzle, rule_constraints, heap, cur, stack, todo, gi, grid, elims>>
    /\ noInv

\* Lines 167-170: the cell to branch on.
SearchChoose ==
    /\ pc = "search"
    /\ ~AllResolved(heap[cur])
    /\ \E min_idx \in MinCells(heap[cur]) :
        stack' = Append(stack, [possibles |-> cur, min_idx |-> min_idx,
                                values |-> heap[cur][min_idx]])
    /\ pc' = "branch"
    /\ UNCHANGED <<puzzle, rule_constraints, heap, cur, todo, gi, outcome, grid, elims>>
    /\ noInv

Top == stack[Len(stack)]

Attempt ==
    LET nd == NewDict(heap, Top.possibles)
        r  == assign_value(nd.heap[nd.ref], Top.min_idx, Head(Top.values))
    IN  [heap |-> [nd.heap EXCEPT ![nd.ref] = r.p], ref |-> nd.ref, ok |-> r.ok, n |-> r.n]

\* Lines 170-174: the next value, assign_value returns, search is called on
\* next_possibles.
BranchDescend ==
    /\ pc = "branch"
    /\ Top.values # <<>>
    /\ Attempt.ok
    /\ heap' = Attempt.heap
    /\ cur' = Attempt.ref
    /\ elims' = Attempt.n
    /\ stack' = [stack EXCEPT ![Len(stack)].values = Tail(@)]
    /\ pc' = "search"
    /\ UNCHANGED <<puzzle, rule_constraints, todo, gi, outcome, grid>>
    /\ noInv

\* Lines 170-176: the next value, assign_value raises Contradiction, which
\* line 175 catches; next_possibles is dropped.
BranchContradiction ==
    /\ pc = "branch"
    /\ Top.values # <<>>
    /\ ~Attempt.ok
    /\ heap' = SubSeq(Attempt.heap, 1, Top.possibles)
    /\ elims' = Attempt.n
    /\ stack' = [stack EXCEPT ![Len(stack)].values = Tail(@)]
    /\ UNCHANGED <<puzzle, rule_constraints, pc, cur, todo, gi, outcome, grid>>
    /\ noInv

\* Line 177 in a recursive call: Contradiction goes to the caller's line 175.
BranchExhausted ==
    /\ pc = "branch"
    /\ Top.values = <<>>
    /\ Len(stack) > 1
    /\ stack' = SubSeq(stack, 1, Len(stack) - 1)
    /\ heap' = SubSeq(heap, 1, stack[Len(stack) - 1].possibles)
    /\ cur' = stack[Len(stack) - 1].possibles
    /\ UNCHANGED <<puzzle, rule_constraints, pc, todo, gi, outcome, grid, elims>>
    /\ noInv

\* Line 177 in the top-level call: solve's line 158 catches Contradiction and
\* raises ValueError("Failed to find a solution. :(").
SearchFailed ==
    /\ pc = "branch"
    /\ Top.values = <<>>
    /\ Len(stack) = 1
    /\ stack' = <<>>
    /\ outcome' = "ValueError: Failed to find a solution. :("
    /\ pc' = "done"
    /\ UNCHANGED <<puzzle, rule_constraints, heap, cur, todo, gi, grid, elims>>
    /\ noInv

Next ==
    \/ SolverInit
    \/ SolveStart
    \/ SeedCell
    \/ SeedKeyError
    \/ SeedDone
    \/ ApplyGiven
    \/ ApplyGivenContradiction
    \/ GivensDone
    \/ SearchSolved
    \/ SearchNoRemaining
    \/ SearchChoose
    \/ BranchDescend
    \/ BranchContradiction
    \/ BranchExhausted
    \/ SearchFailed

Spec == Init /\ [][Next]_vars

\* ------------------------------------------------- rule_inverse on its own

BinaryRules == {r \in Rules : r.op \in BinaryOps}

InitInverse ==
    /\ inv_in \in {a \in [rule : BinaryRules, value : 1 .. MaxMaximum,
                         maximum : 1 .. MaxMaximum] : a.value <= a.maximum}
    /\ inv_out = {}
    /\ pc = "inverse"
    /\ puzzle = NoPuzzle
    /\ rule_constraints = <<>>
    /\ heap = <<>>
    /\ cur = 0
    /\ stack = <<>>
    /\ todo = {}
    /\ gi = 0
    /\ outcome = None
    /\ grid = <<>>
    /\ elims = 0

\* A call rule_inverse(rule, value, maximum).
CallRuleInverse ==
    /\ pc = "inverse"
    /\ inv_out' = rule_inverse(inv_in.rule, inv_in.value, inv_in.maximum)
    /\ pc' = "returned"
    /\ UNCHANGED <<puzzle, rule_constraints, heap, cur, stack, todo, gi, outcome, grid,
                   elims, inv_in>>

NextInverse == CallRuleInverse

SpecInverse == InitInverse /\ [][NextInverse]_vars

\* ----------------------------------------------------------- properties

\* The relation of a binary rule on an unordered pair of values.
Holds(rule, a, b) ==
    CASE rule.op = "+" -> a + b = rule.value
      [] rule.op = "-" -> (a - b = rule.value \/ b - a = rule.value)
      [] rule.op = "*" -> a * b = rule.value
      [] rule.op = "/" -> (a = rule.value * b \/ b = rule.value * a)

Latin(g, n) ==
    \A i \in Indices(n) :
        /\ {g[<<i, j>>] : j \in Indices(n)} = 1 .. n
        /\ {g[<<j, i>>] : j \in Indices(n)} = 1 .. n

Block(a) == {a, <<a[1] + 1, a[2]>>, <<a[1], a[2] + 1>>, <<a[1] + 1, a[2] + 1>>}

BinaryRulesHold(g, rs) ==
    \A i \in 1 .. Len(rs) :
        LET a == rs[i].anchor
            r == rs[i].rule
        IN  r.op \in BinaryOps =>
                /\ Holds(r, g[a], g[<<a[1] + 1, a[2] + 1>>])
                /\ Holds(r, g[<<a[1] + 1, a[2]>>], g[<<a[1], a[2] + 1>>])

ParityRulesHold(g, rs) ==
    \A i \in 1 .. Len(rs) :
        LET r == rs[i].rule
        IN  r.op \in ParityOps =>
                \A c \in Block(rs[i].anchor) : IsOdd(g[c]) <=> (r.op = "o")

GivensHold(g, gs) == \A i \in 1 .. Len(gs) : g[gs[i].cell] = gs[i].value

RowPermutations(n) == {f \in [1 .. n -> 1 .. n] : \A i, j \in 1 .. n : f[i] = f[j] => i = j}

\* The Latin squares of each size, as grids.
LatinSquares ==
    [n \in 2 .. MaxSize |->
        {[c \in Cells(n) |-> rows[c[1] + 1][c[2] + 1]] :
            rows \in {rw \in [1 .. n -> RowPermutations(n)] :
                        \A i, j \in 1 .. n : i # j =>
                            \A k \in 1 .. n : rw[i][k] # rw[j][k]}}]

\* The total assignments that solve the puzzle (of a well-formed puzzle).
ValidAssignments ==
    {g \in LatinSquares[puzzle.size] :
        /\ BinaryRulesHold(g, puzzle.rules)
        /\ ParityRulesHold(g, puzzle.rules)
        /\ GivensHold(g, puzzle.givens)}

Fits(g, p) == \A c \in DOMAIN p : Has(p[c], g[c])

Started == pc \in {"solve", "seed", "givens", "search", "branch", "done"}

\* C1: a returned grid is a Latin square.
C1_ReturnedGridIsLatin ==
    (Started /\ outcome = "grid") => Latin(grid, puzzle.size)

\* C2: a returned grid satisfies every binary junction rule on both diagonal
\* pairs of its block.
C2_ReturnedGridSatisfiesRules ==
    (Started /\ outcome = "grid") => BinaryRulesHold(grid, puzzle.rules)

\* A valid assignment is still within reach: it fits the dict in use, or it
\* fits the dict of a frame whose chosen cell has its value still to try.
Kept(g) ==
    \/ pc = "solve"
    \/ pc \in {"seed", "givens", "search"} /\ Fits(g, heap[cur])
    \/ \E i \in 1 .. Len(stack) :
          /\ pc \in {"search", "branch"}
          /\ Fits(g, heap[stack[i].possibles])
          /\ Has(stack[i].values, g[stack[i].min_idx])
    \/ pc = "done" /\ outcome = "grid"

\* C3: on a well-formed puzzle that has a valid assignment, solve() returns a
\* grid, and no step of seeding, applying givens, propagation or search puts a
\* valid assignment out of reach.
C3_Complete ==
    (Started /\ WellFormed) => \A g \in ValidAssignments : Kept(g)

C3_Witness ==
    /\ pc = "done"
    /\ WellFormed
    /\ ValidAssignments # {}
    /\ outcome = "grid"
    /\ Len(stack) >= 2
    /\ \E i \in 1 .. Len(puzzle.rules) : puzzle.rules[i].rule.op \in BinaryOps

\* C4: once the givens are applied every dict holds, for a given cell, no
\* candidate but the given value, and a returned grid maps it to that value.
C4_GivensKept ==
    /\ (pc \in {"search", "branch"} \/ (Started /\ outcome = "grid")) =>
          \A k \in 1 .. Len(heap) : \A i \in 1 .. Len(puzzle.givens) :
              Range(heap[k][puzzle.givens[i].cell]) \subseteq {puzzle.givens[i].value}
    /\ (Started /\ outcome = "grid") => GivensHold(grid, puzzle.givens)

C4_Witness ==
    /\ Started
    /\ outcome = "grid"
    /\ puzzle.givens # <<>>
    /\ stack # <<>>

\* C5: on a well-formed puzzle, solve() fails only with the no-solution error.
C5_FailsOnlyWithNoSolution ==
    (pc = "done" /\ Started /\ WellFormed /\ outcome # "grid") =>
        outcome = "ValueError: Failed to find a solution. :("

\* C6: a puzzle with an anchor outside [0, size - 2] is rejected with a
\* puzzle-definition error before any dict of candidates exists, and the
\* rule-constraint map has no key outside the grid.
C6_BadAnchorRejected ==
    (Started /\ ~WellFormed) =>
        /\ DOMAIN rule_constraints \subseteq Cells(puzzle.size)
        /\ heap = <<>>
        /\ (pc = "done" => outcome = "PuzzleDefinitionError")

\* C7: no step changes the dict of a frame of search that stays on the stack.
C7_BranchIsolation ==
    [][\A i \in 1 .. Len(stack) :
          i <= Len(stack') =>
              /\ stack[i].possibles <= Len(heap')
              /\ heap'[stack[i].possibles] = heap[stack[i].possibles]]_vars

C7_Witness ==
    /\ pc = "branch"
    /\ Len(stack) >= 2
    /\ Top.values # <<>>
    /\ Len(Top.values) < Len(heap[Top.possibles][Top.min_idx])
    /\ elims > 1

\* What a step of solve() does to the number of candidates: a cascade removes
\* one candidate per execution of line 201, and a recursive call of search gets
\* fewer candidates than its caller holds.
Shrinks ==
    /\ (pc = "branch" /\ pc' = "search") =>
          /\ elims' >= 1
          /\ Total(heap'[cur']) = Total(heap[Top.possibles]) - elims'
          /\ Total(heap'[cur']) < Total(heap[Top.possibles])
    /\ (pc = "givens" /\ pc' = "givens" /\ gi' # gi) =>
          Total(heap'[1]) = Total(heap[1]) - elims'

RECURSIVE Pow(_, _)
Pow(b, e) == IF e = 0 THEN 1 ELSE b * Pow(b, e - 1)

\* A variant of the run of search: the frames' counts of values still to try,
\* read as the digits of a number in base size + 2 (most significant first, one
\* digit per possible depth), a call of search that has not chosen its cell yet
\* counting as the digit size + 1; then the depth of the stack.
SearchRank ==
    LET n     == puzzle.size
        depth == n * n + 1
        digit(i) == IF i <= Len(stack) THEN Len(stack[i].values)
                    ELSE IF i = Len(stack) + 1 /\ pc = "search" THEN n + 1
                    ELSE 0
        RECURSIVE number(_)
        number(i) == IF i > depth THEN 0
                     ELSE digit(i) * Pow(n + 2, depth - i) + number(i + 1)
    IN  number(1) * (depth + 2) + Len(stack)

SearchTop == Pow(puzzle.size + 2, puzzle.size * puzzle.size + 1) * (puzzle.size * puzzle.size + 3)

\* A variant of the run of solve(): every step but the construction lowers it.
Rank ==
    CASE pc = "done"   -> 0
      [] pc \in {"search", "branch"} -> SearchRank
      [] pc = "givens" -> SearchTop + (Len(puzzle.givens) - gi) + 2
      [] pc = "seed"   -> SearchTop + Len(puzzle.givens) + 3 + Cardinality(todo)
      [] pc = "solve"  -> SearchTop + Len(puzzle.givens) + 4 + 4 * Len(puzzle.rules)
      [] OTHER         -> 0

Progresses ==
    /\ pc' # "new"
    /\ pc # "new" => (Rank' < Rank /\ Rank' >= 0)

\* Some action is enabled: the guards of the actions of Next, by position.
CanStep ==
    CASE pc = "search" -> \/ AllResolved(heap[cur])
                          \/ Remaining(heap[cur]) = {}
                          \/ MinCells(heap[cur]) # {}
      [] pc = "branch" -> stack # <<>>
      [] pc = "seed"   -> todo \subseteq DOMAIN rule_constraints
      [] pc = "givens" -> gi >= 1
      [] OTHER         -> pc \in {"new", "solve"}

\* C8: solve() terminates: every step lowers a natural-valued variant and
\* leaves solve() ended or able to step; every cascade removes one candidate per
\* effective elimination, and every recursive call of search gets strictly fewer
\* candidates than its caller holds.
C8_Terminates ==
    [][Shrinks /\ Progresses /\ (pc' = "done" \/ CanStep')]_vars

C8_Witness ==
    /\ pc = "done"
    /\ Len(stack) >= 3
    /\ elims >= 3

\* C9: rule_inverse returns exactly the values of 1..maximum that satisfy the
\* relation with the given value.
C9_InverseExact ==
    pc = "returned" =>
        inv_out = {v \in 1 .. inv_in.maximum : Holds(inv_in.rule, v, inv_in.value)}

\* C10: every dict handed to search gives every cell at least one candidate.
C10_NoEmptyDomainInSearch ==
    (pc = "search") => \A c \in DOMAIN heap[cur] : heap[cur][c] # <<>>

====
